---- MODULE Spec2Model ----
(***************************************************************************)
(* Motion / interaction core of NewsTracker v1.1.0 (src/news-tracker.js,   *)
(* lines 1-300): the requestAnimationFrame driver, the two mirrored        *)
(* tracks, pointer and touch dragging, hover pause and the idle timer.     *)
(*                                                                         *)
(* Units: lengths are CSS pixels, times are whole seconds (one Tick is     *)
(* 1000 ms of performance.now()).  JavaScript numbers are modelled as      *)
(* records so that Infinity and NaN, which the arithmetic of animationLoop *)
(* produces for scrollSpeed 0, keep their IEEE-754 behaviour.              *)
(***************************************************************************)
EXTENDS Integers, FiniteSets

VARIABLES
  this,      \* the NewsTracker instance: its fields and its config
  browser,   \* the host: clock, pending frame callbacks, pending timers, DOM
  lastInteractionAt, \* history: clock value at the latest interaction event
  noMoveSincePause   \* history: pause() was called and no drag-move has
                     \* changed scrollPosition since its latest call

vars == <<this, browser, lastInteractionAt, noMoveSincePause>>

(***************************************************************************)
(* Bounds of the model.                                                    *)
(***************************************************************************)
MaxElapsed == 3       \* longest gap, in seconds, between two frames
MaxOvershoot == 100   \* frames stop once |scrollPosition| exceeds this

\* measured widths of .nt-ticker-content (offsetWidth): even, and half of each
\* is a multiple of every non-zero scroll speed below, so that
\* pixelsPerSecond is a whole number of pixels
Widths == {0, 100, 200}

\* clientX of the pointer / first touch
PointerXs == {150, 200}

\* the options passed to the constructor (scrollSpeed, idleTimeout in seconds)
Configs ==
  { [scrollSpeed |-> 1,   idleTimeout |-> 2],
    [scrollSpeed |-> 1,   idleTimeout |-> 0],
    [scrollSpeed |-> 1,   idleTimeout |-> -1],
    [scrollSpeed |-> 0,   idleTimeout |-> 2],
    [scrollSpeed |-> -1,  idleTimeout |-> 2] }

(***************************************************************************)
(* JavaScript numbers: a finite integer, +/-Infinity, or NaN.              *)
(***************************************************************************)
Num(n) == [k |-> "num", v |-> n]
NaN == [k |-> "nan", v |-> 0]
Inf(sign) == [k |-> "inf", v |-> sign]

IsNum(a) == a.k = "num"
Sign(n) == IF n > 0 THEN 1 ELSE IF n < 0 THEN -1 ELSE 0

\* a + b
FAdd(a, b) ==
  IF a.k = "nan" \/ b.k = "nan" THEN NaN
  ELSE IF a.k = "inf" /\ b.k = "inf" THEN (IF a.v = b.v THEN a ELSE NaN)
  ELSE IF a.k = "inf" THEN a
  ELSE IF b.k = "inf" THEN b
  ELSE Num(a.v + b.v)

\* -a
FNeg(a) ==
  IF a.k = "nan" THEN NaN
  ELSE IF a.k = "inf" THEN Inf(0 - a.v)
  ELSE Num(0 - a.v)

\* a - b
FSub(a, b) == FAdd(a, FNeg(b))

\* a * b
FMul(a, b) ==
  IF a.k = "nan" \/ b.k = "nan" THEN NaN
  ELSE IF a.k = "inf" \/ b.k = "inf"
    THEN (IF Sign(a.v) * Sign(b.v) = 0 THEN NaN ELSE Inf(Sign(a.v) * Sign(b.v)))
  ELSE Num(a.v * b.v)

\* a / n for integers a >= 0 and n: exact on the widths and speeds above
FDivInt(a, n) ==
  IF n = 0 THEN (IF a = 0 THEN NaN ELSE Inf(Sign(a)))
  ELSE Num(a \div n)

\* a >= b (false when either is NaN)
FGe(a, b) ==
  IF a.k = "nan" \/ b.k = "nan" THEN FALSE
  ELSE IF a.k = "inf" /\ b.k = "inf" THEN a.v >= b.v
  ELSE IF a.k = "inf" THEN a.v > 0
  ELSE IF b.k = "inf" THEN b.v < 0
  ELSE a.v >= b.v

\* Math.min(a, b), Math.max(a, b): NaN when either argument is NaN
MathMin(a, b) ==
  IF a.k = "nan" \/ b.k = "nan" THEN NaN
  ELSE IF FGe(a, b) THEN b ELSE a

MathMax(a, b) ==
  IF a.k = "nan" \/ b.k = "nan" THEN NaN
  ELSE IF FGe(a, b) THEN a ELSE b

(***************************************************************************)
(* The host's scheduling primitives.                                       *)
(***************************************************************************)
\* a handle no pending callback has
FreshId(ids) == CHOOSE i \in 1..(Cardinality(ids) + 1) : i \notin ids

requestAnimationFrame(w) ==
  LET id == FreshId(w.browser.frames)
  IN [w EXCEPT !.browser.frames = @ \cup {id}, !.this.animationFrameId = id]

cancelAnimationFrame(w, id) == [w EXCEPT !.browser.frames = @ \ {id}]

\* setTimeout(callback, delay * 1000): a delay below 0 counts as 0
setTimeout(w, delay) ==
  LET id == FreshId({t.id : t \in w.browser.timers})
      due == w.browser.now + (IF delay > 0 THEN delay ELSE 0)
  IN [w EXCEPT !.browser.timers = @ \cup {[id |-> id, due |-> due]},
               !.this.idleTimeoutId = id]

clearTimeout(w, id) ==
  [w EXCEPT !.browser.timers = {t \in @ : t.id # id}]

(***************************************************************************)
(* Methods of NewsTracker.  Each maps the world before the call to the     *)
(* world after it.                                                         *)
(***************************************************************************)
\* variant: only the primary track is translated
applyScrollPosition_PrimaryOnly(w) ==
  LET translateX == FNeg(w.this.scrollPosition)
  IN [w EXCEPT !.this.transform.content = translateX]

\* this.transform[el] is the translation assigned to el.style.transform
applyScrollPosition(w) ==
  LET translateX == FNeg(w.this.scrollPosition)
  IN [w EXCEPT !.this.transform = [el \in {"content", "clone"} |-> translateX]]

\* variant: one whole content width per scrollSpeed seconds
pixelsPerSecond_WholeWidth(contentWidth, scrollSpeed) ==
  FDivInt(contentWidth, scrollSpeed)

pixelsPerSecond(contentWidth, scrollSpeed) ==
  FDivInt(contentWidth \div 2, scrollSpeed)

animationLoop(w) ==
  IF ~w.this.isScrolling THEN w
  ELSE
    LET now == w.browser.now
        deltaTime == now - w.this.lastFrameTime
        pps == pixelsPerSecond(w.this.contentWidth, w.this.scrollSpeed)
        moved == FAdd(w.this.scrollPosition, FMul(Num(deltaTime), pps))
        wrapped == IF FGe(moved, Num(w.this.contentWidth))
                   THEN FSub(moved, Num(w.this.contentWidth))
                   ELSE moved
        w1 == [w EXCEPT !.this.lastFrameTime = now,
                        !.this.scrollPosition = wrapped]
    IN requestAnimationFrame(applyScrollPosition(w1))

\* variant: a content width of 0 does not stop start()
start_NoWidthCheck(w) ==
  IF w.this.isScrolling THEN w
  ELSE animationLoop([w EXCEPT !.this.isScrolling = TRUE,
                               !.this.lastFrameTime = w.browser.now])

\* variant: start() keeps the time stamp of the last frame before the pause
start_KeepsFrameTime(w) ==
  IF w.this.isScrolling \/ w.this.contentWidth = 0 THEN w
  ELSE animationLoop([w EXCEPT !.this.isScrolling = TRUE])

\* the first pass of animationLoop runs inside start(), at the same clock
\* value: its deltaTime is 0
start(w) ==
  IF w.this.isScrolling \/ w.this.contentWidth = 0 THEN w
  ELSE animationLoop([w EXCEPT !.this.isScrolling = TRUE,
                               !.this.lastFrameTime = w.browser.now])

\* variant: the pending frame callback is not cancelled
pause_NoCancel(w) ==
  [w EXCEPT !.this.isScrolling = FALSE, !.this.animationFrameId = 0]

\* variant: the frame callback is cancelled but isScrolling stays set
pause_KeepsFlag(w) ==
  IF w.this.animationFrameId # 0
  THEN [cancelAnimationFrame(w, w.this.animationFrameId)
          EXCEPT !.this.animationFrameId = 0]
  ELSE w

pause(w) ==
  LET w1 == [w EXCEPT !.this.isScrolling = FALSE]
  IN IF w1.this.animationFrameId # 0
     THEN [cancelAnimationFrame(w1, w1.this.animationFrameId)
             EXCEPT !.this.animationFrameId = 0]
     ELSE w1

\* variant: the previous timer is not cleared
recordInteraction_NoClear(w) == setTimeout(w, w.this.idleTimeout)

\* variant: an idle timeout of 0 or less schedules nothing
recordInteraction_OffAtZero(w) ==
  IF w.this.idleTimeout <= 0 THEN clearTimeout(w, w.this.idleTimeoutId)
  ELSE setTimeout(clearTimeout(w, w.this.idleTimeoutId), w.this.idleTimeout)

recordInteraction(w) ==
  setTimeout(clearTimeout(w, w.this.idleTimeoutId), w.this.idleTimeout)

\* variant: the callback does not look at isHovered
idleCallback_IgnoresHover(w) ==
  IF ~w.this.isDragging THEN start(w) ELSE w

\* the callback recordInteraction hands to setTimeout
idleCallback(w) ==
  IF ~w.this.isDragging /\ ~w.this.isHovered THEN start(w) ELSE w

\* variant: the drag begins without pausing the driver
handleMouseDown_NoPause(w, clientX) ==
  LET w1 == [w EXCEPT !.this.isDragging = TRUE,
                      !.this.startX = clientX,
                      !.this.startScrollPosition = w.this.scrollPosition]
  IN recordInteraction(w1)

handleMouseDown(w, clientX) ==
  LET w1 == [w EXCEPT !.this.isDragging = TRUE,
                      !.this.startX = clientX,
                      !.this.startScrollPosition = w.this.scrollPosition]
  IN recordInteraction(pause(w1))

\* variant: the move is applied whether or not a drag is active
handleMouseMove_NoGuard(w, clientX) ==
  LET deltaX == clientX - w.this.startX
      clamped == MathMax(Num(0),
                   MathMin(FSub(w.this.startScrollPosition, Num(deltaX)),
                           Num(w.this.contentWidth)))
  IN recordInteraction(
       applyScrollPosition([w EXCEPT !.this.scrollPosition = clamped]))

handleMouseMove(w, clientX) ==
  IF ~w.this.isDragging THEN w
  ELSE
    LET deltaX == clientX - w.this.startX
        clamped == MathMax(Num(0),
                     MathMin(FSub(w.this.startScrollPosition, Num(deltaX)),
                             Num(w.this.contentWidth)))
    IN recordInteraction(
         applyScrollPosition([w EXCEPT !.this.scrollPosition = clamped]))

\* variant: the release restarts the driver in the same event
handleMouseUp_StartsAtOnce(w) ==
  start(recordInteraction([w EXCEPT !.this.isDragging = FALSE]))

handleMouseUp(w) == recordInteraction([w EXCEPT !.this.isDragging = FALSE])

handleTouchStart(w, clientX) ==
  LET w1 == [w EXCEPT !.this.isDragging = TRUE,
                      !.this.startX = clientX,
                      !.this.startScrollPosition = w.this.scrollPosition]
  IN recordInteraction(pause(w1))

\* variant: the touch source adds the pointer's displacement
handleTouchMove_AddsDelta(w, clientX) ==
  IF ~w.this.isDragging THEN w
  ELSE
    LET deltaX == clientX - w.this.startX
        clamped == MathMax(Num(0),
                     MathMin(FAdd(w.this.startScrollPosition, Num(deltaX)),
                             Num(w.this.contentWidth)))
    IN recordInteraction(
         applyScrollPosition([w EXCEPT !.this.scrollPosition = clamped]))

handleTouchMove(w, clientX) ==
  IF ~w.this.isDragging THEN w
  ELSE
    LET deltaX == clientX - w.this.startX
        clamped == MathMax(Num(0),
                     MathMin(FSub(w.this.startScrollPosition, Num(deltaX)),
                             Num(w.this.contentWidth)))
    IN recordInteraction(
         applyScrollPosition([w EXCEPT !.this.scrollPosition = clamped]))

handleTouchEnd(w) == recordInteraction([w EXCEPT !.this.isDragging = FALSE])

\* the 'mouseenter' listener
onMouseEnter(w) == pause([w EXCEPT !.this.isHovered = TRUE])

\* variant: leaving only clears isHovered
onMouseLeave_WaitsForIdle(w) == [w EXCEPT !.this.isHovered = FALSE]

\* the first 'mouseleave' listener
onMouseLeave(w) ==
  LET w1 == [w EXCEPT !.this.isHovered = FALSE]
  IN IF ~w1.this.isDragging THEN start(w1) ELSE w1

\* the 'resize' listener: after destroy() emptied the container,
\* querySelector returns null and reading offsetWidth throws a TypeError
\* before anything is assigned
onResize(w, width) ==
  IF w.browser.destroyed THEN w
  ELSE [w EXCEPT !.this.contentWidth = width]

\* generateNewsItems measures the rebuilt content; after destroy() the
\* content element is gone and content.innerHTML throws a TypeError before
\* the width is measured
generateNewsItems(w, width) ==
  IF w.browser.destroyed THEN w
  ELSE [w EXCEPT !.this.contentWidth = width]

updateNews(w, width) == generateNewsItems(w, width)

\* pause(), then the container is emptied.  removeEventListener is given
\* this.handleResize, which is undefined, so the resize listener stays; the
\* container's own listeners stay registered as well, and the two track
\* elements stay referenced by contentElements.
destroy(w) == [pause(w) EXCEPT !.browser.destroyed = TRUE]

(***************************************************************************)
(* The state machine.  Every action is one run-to-completion task of the   *)
(* page's single thread: a listener, a callback or a call from the host.   *)
(***************************************************************************)
World == [this |-> this, browser |-> browser]

\* the fields after the assignments of the constructor, before initialize()
Constructed(cfg, width) ==
  [this |-> [scrollSpeed |-> cfg.scrollSpeed,
             idleTimeout |-> cfg.idleTimeout,
             isScrolling |-> FALSE,
             scrollPosition |-> Num(0),
             contentWidth |-> width,
             animationFrameId |-> 0,
             isDragging |-> FALSE,
             isHovered |-> FALSE,
             idleTimeoutId |-> 0,
             lastFrameTime |-> 0,
             startX |-> 0,
             startScrollPosition |-> Num(0),
             transform |-> [el \in {"content", "clone"} |-> Num(0)]],
   browser |-> [now |-> 0, frames |-> {}, timers |-> {}, destroyed |-> FALSE]]

\* new NewsTracker(options) on a page that has the container:
\* generateNewsItems measures the content, then config.autoStart && this.start()
Init ==
  \E cfg \in Configs, width \in Widths, autoStart \in BOOLEAN :
    LET w0 == Constructed(cfg, width)
        w1 == IF autoStart THEN start(w0) ELSE w0
    IN /\ this = w1.this
       /\ browser = w1.browser
       /\ lastInteractionAt = 0
       /\ noMoveSincePause = FALSE

TimerDue == \E t \in browser.timers : t.due <= browser.now

\* One second passes.  Clock values are kept relative to the current instant
\* (browser.now stays 0 and every stored time stamp moves one second into
\* the past).  A due timer runs before more time passes.  lastFrameTime is
\* read only by animationLoop while isScrolling, and start() overwrites it
\* before that, so while the driver is paused it stops ageing at MaxElapsed.
Tick ==
  /\ ~TimerDue
  /\ this.isScrolling => this.lastFrameTime > 0 - MaxElapsed
  /\ this' = [this EXCEPT !.lastFrameTime =
                 IF @ > 0 - MaxElapsed THEN @ - 1 ELSE @]
  /\ browser' = [browser EXCEPT !.timers =
                    {[id |-> t.id, due |-> t.due - 1] : t \in @}]
  /\ lastInteractionAt' =
       IF browser.timers # {} THEN lastInteractionAt - 1 ELSE lastInteractionAt
  /\ UNCHANGED noMoveSincePause

InBounds(a) == IsNum(a) => (a.v <= MaxOvershoot /\ a.v >= 0 - MaxOvershoot)

\* the browser runs a requested frame callback
Frame ==
  \E id \in browser.frames :
    LET w == animationLoop([World EXCEPT !.browser.frames = @ \ {id}])
    IN
       /\ InBounds(this.scrollPosition)
       /\ this' = w.this
       /\ browser' = w.browser
       /\ UNCHANGED lastInteractionAt
       /\ UNCHANGED noMoveSincePause

\* the browser runs a timer that is due
IdleTimer ==
  \E t \in browser.timers :
    LET w == idleCallback([World EXCEPT !.browser.timers = @ \ {t}])
    IN
       /\ t.due <= browser.now
       /\ this' = w.this
       /\ browser' = w.browser
       /\ UNCHANGED lastInteractionAt
       /\ UNCHANGED noMoveSincePause

\* calls from the host page
ApiStart ==
  LET w == start(World)
  IN /\ this' = w.this
     /\ browser' = w.browser
     /\ UNCHANGED lastInteractionAt
     /\ UNCHANGED noMoveSincePause

ApiPause ==
  LET w == pause(World)
  IN /\ this' = w.this
     /\ browser' = w.browser
     /\ UNCHANGED lastInteractionAt
     /\ noMoveSincePause' = TRUE

ApiUpdateNews ==
  \E width \in Widths :
    LET w == updateNews(World, width)
    IN
       /\ this' = w.this
       /\ browser' = w.browser
       /\ UNCHANGED lastInteractionAt
       /\ UNCHANGED noMoveSincePause

ApiDestroy ==
  LET w == destroy(World)
  IN /\ this' = w.this
     /\ browser' = w.browser
     /\ UNCHANGED lastInteractionAt
     /\ noMoveSincePause' = TRUE

\* events on the container
MouseEnter ==
  LET w == onMouseEnter(World)
  IN /\ this' = w.this
     /\ browser' = w.browser
     /\ UNCHANGED lastInteractionAt
     /\ noMoveSincePause' = TRUE

\* listeners in registration order: hover handling, then handleMouseUp
MouseLeave ==
  LET w == handleMouseUp(onMouseLeave(World))
  IN /\ this' = w.this
     /\ browser' = w.browser
     /\ lastInteractionAt' = browser.now
     /\ UNCHANGED noMoveSincePause

MouseDown ==
  \E x \in PointerXs :
    LET w == handleMouseDown(World, x)
    IN
       /\ this' = w.this
       /\ browser' = w.browser
       /\ lastInteractionAt' = browser.now
       /\ noMoveSincePause' = TRUE

\* listeners in registration order: handleMouseMove, then recordInteraction
MouseMove ==
  \E x \in PointerXs :
    LET w == recordInteraction(handleMouseMove(World, x))
    IN
       /\ this' = w.this
       /\ browser' = w.browser
       /\ lastInteractionAt' = browser.now
       /\ noMoveSincePause' = (~this.isDragging /\ noMoveSincePause)

MouseUp ==
  LET w == handleMouseUp(World)
  IN /\ this' = w.this
     /\ browser' = w.browser
     /\ lastInteractionAt' = browser.now
     /\ UNCHANGED noMoveSincePause

TouchStart ==
  \E x \in PointerXs :
    LET w == handleTouchStart(World, x)
    IN
       /\ this' = w.this
       /\ browser' = w.browser
       /\ lastInteractionAt' = browser.now
       /\ noMoveSincePause' = TRUE

\* listeners in registration order: handleTouchMove, then recordInteraction
TouchMove ==
  \E x \in PointerXs :
    LET w == recordInteraction(handleTouchMove(World, x))
    IN
       /\ this' = w.this
       /\ browser' = w.browser
       /\ lastInteractionAt' = browser.now
       /\ noMoveSincePause' = (~this.isDragging /\ noMoveSincePause)

TouchEnd ==
  LET w == handleTouchEnd(World)
  IN /\ this' = w.this
     /\ browser' = w.browser
     /\ lastInteractionAt' = browser.now
     /\ UNCHANGED noMoveSincePause

\* the window's resize event
Resize ==
  \E width \in Widths :
    LET w == onResize(World, width)
    IN
       /\ this' = w.this
       /\ browser' = w.browser
       /\ UNCHANGED lastInteractionAt
       /\ UNCHANGED noMoveSincePause

Next ==
  \/ Tick
  \/ Frame
  \/ IdleTimer
  \/ ApiStart
  \/ ApiPause
  \/ ApiUpdateNews
  \/ ApiDestroy
  \/ MouseEnter
  \/ MouseLeave
  \/ MouseDown
  \/ MouseMove
  \/ MouseUp
  \/ TouchStart
  \/ TouchMove
  \/ TouchEnd
  \/ Resize

Spec == Init /\ [][Next]_vars

\* the same program constructed with a positive scroll speed
InitValid == Init /\ this.scrollSpeed > 0

SpecValid == InitValid /\ [][Next]_vars

(***************************************************************************)
(* Properties.  A step "is" an action when the pair of states satisfies    *)
(* the action's formula.                                                   *)
(***************************************************************************)
\* 0 <= scrollPosition < contentWidth
InRange ==
  /\ IsNum(this.scrollPosition)
  /\ this.scrollPosition.v >= 0
  /\ this.scrollPosition.v < this.contentWidth

\* 0 <= scrollPosition <= contentWidth
InClosedRange ==
  /\ IsNum(this.scrollPosition)
  /\ this.scrollPosition.v >= 0
  /\ this.scrollPosition.v <= this.contentWidth

DragMove == MouseMove \/ TouchMove

Interaction ==
  MouseDown \/ MouseMove \/ MouseUp \/ MouseLeave \/ TouchStart \/ TouchMove \/ TouchEnd

\* C1 (wrap invariant): a frame advance of the running driver leaves
\* 0 <= scrollPosition < contentWidth, whatever time elapsed since the frame
\* before.  Stated for the frames that start inside the interval, so that a
\* violation is the wrap's own.
WrapInvariant == [][(Frame /\ InRange) => InRange']_vars

\* C2 (teardown): right after destroy() no frame callback and no idle timer
\* is pending and the driver is not running.
TeardownLeavesNothingScheduled ==
  [][ApiDestroy =>
       (browser'.frames = {} /\ browser'.timers = {} /\ ~this'.isScrolling)]_vars

\* C3 (drag clamp): after every drag-move of an active drag, mouse or touch,
\* 0 <= scrollPosition <= contentWidth.
DragClamp == [][(DragMove /\ this.isDragging) => InClosedRange']_vars

\* C4 (idle debounce): with a positive idleTimeout, the resume timer expires
\* idleTimeout after the latest interaction, and when it does no other timer
\* is left to expire: one burst of interactions, one expiry.
IdleDebounce ==
  [][(IdleTimer /\ this.idleTimeout > 0) =>
       (/\ lastInteractionAt = browser.now - this.idleTimeout
        /\ browser'.timers = {})]_vars

\* a burst of interactions (a drag: mouse-down or touch-start, then release)
\* whose single timer has expired and restarted the driver
IdleDebounceWitness ==
  /\ this.idleTimeout > 0
  /\ this.startX # 0
  /\ ~this.isDragging
  /\ this.idleTimeoutId # 0
  /\ browser.timers = {}
  /\ lastInteractionAt = browser.now - this.idleTimeout
  /\ this.isScrolling
  /\ this.lastFrameTime = browser.now

\* C5 (mutual exclusion of resume): an idle-timer expiry while isHovered or
\* isDragging is set does not start the driver: it changes no field and
\* schedules no frame callback.
NoResumeWhileBlocked ==
  [][(IdleTimer /\ (this.isHovered \/ this.isDragging)) =>
       (this' = this /\ browser'.frames = browser.frames)]_vars

\* the timer of an interaction has expired with the pointer hovering and no
\* drag active, and the driver is still paused
NoResumeWhileBlockedWitness ==
  /\ this.isHovered
  /\ ~this.isDragging
  /\ this.contentWidth # 0
  /\ this.idleTimeoutId # 0
  /\ browser.timers = {}
  /\ ~this.isScrolling
  /\ browser.frames = {}

\* C6 (dual-track sync): both tracks carry the same translation, and it is
\* -scrollPosition.
DualTrackSync ==
  /\ this.transform["content"] = this.transform["clone"]
  /\ this.transform["clone"] = FNeg(this.scrollPosition)

\* a drag that began at an offset the driver had reached has moved both
\* tracks
DualTrackSyncWitness ==
  /\ this.isDragging
  /\ IsNum(this.scrollPosition)
  /\ this.startScrollPosition # Num(0)
  /\ this.scrollPosition # this.startScrollPosition
  /\ this.scrollPosition # Num(0)
  /\ this.transform["clone"] = FNeg(this.scrollPosition)

\* the offset after one wrap step
WrapOnce(x, width) == IF x >= width THEN x - width ELSE x

\* seconds since the frame before
Elapsed == browser.now - this.lastFrameTime

\* C7 as claimed (scroll speed): a frame advances the offset by
\* elapsed * contentWidth / scrollSpeed.
ScrollSpeedWholeWidth ==
  [][(Frame /\ this.scrollSpeed > 0 /\ IsNum(this.scrollPosition)) =>
       this'.scrollPosition =
         Num(WrapOnce(this.scrollPosition.v
                        + (Elapsed * this.contentWidth) \div this.scrollSpeed,
                      this.contentWidth))]_vars

\* C7 as amended: a frame advances the offset by
\* elapsed * (contentWidth / 2) / scrollSpeed, half the claimed distance; with
\* scrollSpeed 0 the offset stops being a finite number.
ScrollSpeedHalfWidth ==
  [][Frame =>
       IF this.scrollSpeed # 0 /\ IsNum(this.scrollPosition)
       THEN this'.scrollPosition =
              Num(WrapOnce(this.scrollPosition.v
                             + (Elapsed * this.contentWidth) \div (2 * this.scrollSpeed),
                           this.contentWidth))
       ELSE ~IsNum(this'.scrollPosition)]_vars

\* one second after start at offset 0: 50 px on a 100 px track with
\* scrollSpeed 1 (the claimed 10 px for 1000 px and 100 s scale to 100 px here)
ScrollSpeedWitness ==
  /\ this.isScrolling
  /\ this.scrollSpeed = 1
  /\ this.contentWidth = 100
  /\ this.scrollPosition = Num(50)
  /\ this.startX = 0
  /\ this.lastFrameTime = browser.now

\* C8 (scroll period validation): the driver never runs a frame with a scroll
\* period of zero or less.
NonPositivePeriodRejected == [][Frame => this.scrollSpeed > 0]_vars

\* C9 as claimed (idle timeout 0 disables): with idleTimeout <= 0 no
\* idle-timer expiry starts the driver.
IdleTimeoutZeroDisables ==
  [][(IdleTimer /\ this.idleTimeout <= 0) =>
       ~(~this.isScrolling /\ this'.isScrolling)]_vars

\* C9 as amended: with idleTimeout <= 0 every interaction still schedules the
\* timer, with no delay; it expires at the instant of the interaction and
\* starts the driver unless isDragging or isHovered is set or the content
\* width is 0.
IdleTimeoutZeroResumesAtOnce ==
  [][this.idleTimeout <= 0 =>
       (/\ Interaction => \E t \in browser'.timers : t.due = browser.now
        /\ IdleTimer =>
             (/\ lastInteractionAt = browser.now
              /\ (~this.isDragging /\ ~this.isHovered /\ this.contentWidth # 0)
                    => this'.isScrolling))]_vars

\* after a drag with idleTimeout <= 0 the driver is running again although
\* no time has passed since the release
IdleTimeoutZeroWitness ==
  /\ this.idleTimeout <= 0
  /\ this.startX # 0
  /\ ~this.isDragging
  /\ ~this.isHovered
  /\ browser.timers = {}
  /\ this.idleTimeoutId # 0
  /\ lastInteractionAt = browser.now
  /\ this.isScrolling
  /\ this.lastFrameTime = browser.now

\* C10 (resize): a resize on a live widget keeps or reclamps the offset so
\* that 0 <= scrollPosition < contentWidth right after it.  Stated for
\* resizes that find the offset inside the old interval and measure a
\* non-zero width.
ResizeReclamps ==
  [][(Resize /\ ~browser.destroyed /\ InRange /\ this'.contentWidth > 0)
       => InRange']_vars

\* C11 (hover pause/resume): a pointer-enter sets isHovered and leaves the
\* driver paused with no frame callback pending; a pointer-leave with no drag
\* active and a non-zero content width clears isHovered and leaves the driver
\* running in that same event, its frame callback scheduled, while the idle
\* timer is still pending; a pointer-leave during a drag clears isHovered and
\* does not start the driver in that event.
HoverPauseResume ==
  [][/\ MouseEnter =>
          (this'.isHovered /\ ~this'.isScrolling /\ browser'.frames = {})
     /\ (~this.isDragging /\ this.contentWidth # 0 /\ MouseLeave) =>
          (/\ ~this'.isHovered
           /\ this'.isScrolling
           /\ this'.animationFrameId \in browser'.frames
           /\ ~this.isScrolling => this'.lastFrameTime = browser.now
           /\ \E t \in browser'.timers : t.id = this'.idleTimeoutId)
     /\ (this.isDragging /\ MouseLeave) =>
          (/\ ~this'.isHovered
           /\ this'.isScrolling = this.isScrolling
           /\ browser'.frames = browser.frames)]_vars

\* the pointer has left a ticker that never was dragged: the driver runs
\* again from an offset it had reached before the hover, and the idle timer
\* of the leave has its whole delay left
HoverPauseResumeWitness ==
  /\ this.idleTimeout > 0
  /\ this.startX = 0
  /\ ~this.isHovered
  /\ ~this.isDragging
  /\ this.isScrolling
  /\ this.lastFrameTime = browser.now
  /\ this.scrollPosition = Num(50)
  /\ lastInteractionAt = browser.now
  /\ \E t \in browser.timers : t.due = browser.now + this.idleTimeout

\* the delay setTimeout waits for: idleTimeout, or nothing if it is negative
Max0(n) == IF n > 0 THEN n ELSE 0

\* a release of an active drag
DragEnd == this.isDragging /\ (MouseUp \/ TouchEnd \/ MouseLeave)

\* C12 (drag-end resume): a drag-end clears isDragging, leaves the driver as
\* it was and leaves exactly the idle timer pending, due idleTimeout later;
\* the passing of time alone does not start the driver; and the expiry that
\* finds no drag, no hover and a non-zero content width starts the driver,
\* idleTimeout after the latest interaction.
DragEndResume ==
  [][/\ DragEnd =>
          (/\ ~this'.isDragging
           /\ this'.isScrolling = this.isScrolling
           /\ browser'.frames = browser.frames
           /\ browser'.timers # {}
           /\ \A t \in browser'.timers :
                t.due = browser.now + Max0(this.idleTimeout))
     /\ Tick =>
          (this'.isScrolling = this.isScrolling
             /\ browser'.frames = browser.frames)
     /\ (~this.isDragging /\ ~this.isHovered /\ this.contentWidth # 0
           /\ IdleTimer) =>
          (/\ this'.isScrolling
           /\ this'.animationFrameId \in browser'.frames
           /\ lastInteractionAt = browser.now - Max0(this.idleTimeout))]_vars

\* one second after the release of a drag, with idleTimeout 2: the driver is
\* still paused and the timer has one second left
DragEndResumeWitness ==
  /\ this.idleTimeout = 2
  /\ this.startX # 0
  /\ ~this.isDragging
  /\ ~this.isHovered
  /\ this.contentWidth # 0
  /\ ~this.isScrolling
  /\ browser.frames = {}
  /\ lastInteractionAt = browser.now - 1
  /\ \E t \in browser.timers : t.due = browser.now + 1

\* C13 (start contract): start() on a running driver or with content width 0
\* changes nothing; otherwise it sets isScrolling, captures the current time
\* in lastFrameTime and schedules one more frame callback.
StartContract ==
  [][ApiStart =>
       IF this.isScrolling \/ this.contentWidth = 0
       THEN this' = this /\ browser' = browser
       ELSE /\ this'.isScrolling
            /\ this'.lastFrameTime = browser.now
            /\ this'.animationFrameId \notin browser.frames
            /\ browser'.frames = browser.frames \cup {this'.animationFrameId}]_vars

\* the driver was started on a ticker nobody has touched, some time after a
\* pause away from offset 0
StartContractWitness ==
  /\ this.isScrolling
  /\ this.lastFrameTime = browser.now
  /\ browser.frames = {this.animationFrameId}
  /\ this.idleTimeoutId = 0
  /\ ~this.isHovered
  /\ IsNum(this.scrollPosition)
  /\ this.scrollPosition.v > 0
  /\ this.scrollPosition.v < this.contentWidth

\* C14 (single idle timer): at most one idle-resume timer is pending, and a
\* pending one is the one idleTimeoutId names.
SingleIdleTimer ==
  /\ Cardinality(browser.timers) <= 1
  /\ \A t \in browser.timers : t.id = this.idleTimeoutId

\* a drag-move of an active drag, whose two listeners each called
\* recordInteraction, has left one timer
SingleIdleTimerWitness ==
  /\ this.isDragging
  /\ IsNum(this.scrollPosition)
  /\ this.scrollPosition # this.startScrollPosition
  /\ lastInteractionAt = browser.now
  /\ Cardinality(browser.timers) = 1

\* C15 (single driver): at most one frame callback is pending.
SingleFrameCallback == Cardinality(browser.frames) <= 1

\* the driver, paused by a hover that still lasts, was started again by the
\* host and has one frame callback
SingleFrameCallbackWitness ==
  /\ this.isHovered
  /\ ~this.isDragging
  /\ this.isScrolling
  /\ Cardinality(browser.frames) = 1

\* while a drag is active the driver is paused and no frame callback is
\* pending
DragPaused == this.isDragging => (~this.isScrolling /\ browser.frames = {})

\* C16 (driver paused during drag): the ticker is constructed with no drag
\* active, and no pointer, touch, idle-timer or frame event, nor any other
\* step but a start() call of the host, leads from a state where the driver is
\* paused for the drag to one where it is not; so in a run of such events no
\* frame callback exists that could advance scrollPosition while isDragging
\* is set.
DriverPausedDuringDrag == [][(DragPaused /\ ~ApiStart) => DragPaused']_vars

\* a drag has begun on a ticker whose driver had advanced the offset, and the
\* driver is paused
DriverPausedDuringDragWitness ==
  /\ this.isDragging
  /\ this.startScrollPosition = Num(50)
  /\ this.scrollPosition = Num(50)
  /\ ~this.isScrolling
  /\ browser.frames = {}

\* clamp(v, lo, hi) on the integers
Clamp(v, lo, hi) == IF v < lo THEN lo ELSE IF v > hi THEN hi ELSE v

\* the offset a drag-move at pointer position x is to give: the offset at
\* drag-start less the pointer's displacement, kept within [0, contentWidth].
\* +Infinity is kept to contentWidth and -Infinity to 0; NaN has no place in
\* the interval and stays NaN.
DragTarget(x) ==
  LET origin == this.startScrollPosition
  IN IF origin.k = "nan" THEN NaN
     ELSE IF origin.k = "inf"
       THEN (IF origin.v > 0 THEN Num(this.contentWidth) ELSE Num(0))
     ELSE Num(Clamp(origin.v - (x - this.startX), 0, this.contentWidth))

\* a drag-move of the mouse, of a touch, at pointer position x
MouseMoveAt(x) ==
  LET w == recordInteraction(handleMouseMove(World, x))
  IN /\ lastInteractionAt' = browser.now
     /\ noMoveSincePause' = (~this.isDragging /\ noMoveSincePause)
     /\ this' = w.this
     /\ browser' = w.browser

TouchMoveAt(x) ==
  LET w == recordInteraction(handleTouchMove(World, x))
  IN /\ lastInteractionAt' = browser.now
     /\ noMoveSincePause' = (~this.isDragging /\ noMoveSincePause)
     /\ this' = w.this
     /\ browser' = w.browser

\* C17 (drag-move result): during a drag, a drag-move at x, from the mouse or
\* from a touch, sets scrollPosition to
\* clamp(startScrollPosition - (x - startX), 0, contentWidth), with startX and
\* startScrollPosition as the latest drag-start captured them, and both
\* tracks to its negation.
DragMoveResult ==
  [][\A x \in PointerXs :
       (this.isDragging /\ (MouseMoveAt(x) \/ TouchMoveAt(x))) =>
         (/\ this'.scrollPosition = DragTarget(x)
          /\ this'.transform["content"] = FNeg(DragTarget(x))
          /\ this'.transform["clone"] = FNeg(DragTarget(x)))]_vars

\* the drag that began at offset 50 with the pointer at 200 has moved the
\* pointer to 150: the offset is 100
DragMoveResultWitness ==
  /\ this.isDragging
  /\ this.startScrollPosition = Num(50)
  /\ this.startX = 200
  /\ this.contentWidth = 200
  /\ this.scrollPosition = Num(100)
  /\ this.transform["clone"] = Num(-100)
  /\ lastInteractionAt = browser.now

\* C18 (stray drag-move): a drag-move, mouse or touch, that finds isDragging
\* false leaves scrollPosition, both tracks' translations, isDragging,
\* isScrolling and the pending frame callbacks as they were.
StrayMoveIgnored ==
  [][(~this.isDragging /\ DragMove) =>
       (/\ this'.scrollPosition = this.scrollPosition
        /\ this'.transform = this.transform
        /\ ~this'.isDragging
        /\ this'.isScrolling = this.isScrolling
        /\ browser'.frames = browser.frames)]_vars

\* a move arrived after the release of a drag that had moved the offset: the
\* offset is still the one the drag left, away from where the pointer is now
StrayMoveIgnoredWitness ==
  /\ ~this.isDragging
  /\ this.startX = 200
  /\ this.startScrollPosition = Num(50)
  /\ this.scrollPosition = Num(100)
  /\ this.transform["content"] = Num(-100)
  /\ ~this.isScrolling
  /\ lastInteractionAt = browser.now
  /\ browser.timers # {}

\* C19 (driver flag and frame callback agree): isScrolling is set exactly
\* when one frame callback is pending, and that callback is the one
\* animationFrameId names.
ScrollingIffFramePending ==
  /\ this.isScrolling <=> Cardinality(browser.frames) = 1
  /\ this.isScrolling => browser.frames = {this.animationFrameId}
  /\ ~this.isScrolling => browser.frames = {}

\* the driver has been paused after it ran: the flag is clear and no frame
\* callback is left
ScrollingIffFramePendingWitness ==
  /\ ~this.isScrolling
  /\ browser.frames = {}
  /\ this.animationFrameId = 0
  /\ this.scrollPosition = Num(50)
  /\ this.idleTimeoutId = 0
  /\ ~this.isHovered

\* a step that starts the paused driver: start() from the host, from the
\* pointer-leave listener or from the idle callback, with its first pass of
\* animationLoop
Restart == ~this.isScrolling /\ this'.isScrolling

\* C20 as claimed (paused time adds no advance): when the driver restarts
\* after a pause() with no drag-move since, scrollPosition right after the
\* restart is what it was at the pause (nothing but a drag-move changes it
\* while the driver is paused).  Stated for a positive scrollSpeed, no drag
\* active and an offset within [0, contentWidth] that an earlier drag has set.
PausedTimeNoAdvance ==
  [][(/\ Restart
      /\ noMoveSincePause
      /\ this.scrollSpeed > 0
      /\ InClosedRange
      /\ ~this.isDragging
      /\ this.startX # 0
      /\ this.startScrollPosition # this.scrollPosition) =>
       this'.scrollPosition = this.scrollPosition]_vars

\* C20 as amended: the restart captures the current time, so that the time
\* spent paused adds nothing to the offset, but its first pass still applies
\* the wrap step: an offset of contentWidth or more at the pause (a drag
\* clamps to contentWidth inclusive) is reduced by contentWidth; and with
\* scrollSpeed 0 the first pass turns the offset into NaN.
RestartWrapsOnly ==
  [][Restart =>
       (/\ this'.lastFrameTime = browser.now
        /\ this'.scrollPosition =
             IF this.scrollSpeed = 0 \/ ~IsNum(this.scrollPosition) THEN NaN
             ELSE Num(WrapOnce(this.scrollPosition.v, this.contentWidth)))]_vars

\* a drag began at offset 50 and ended without a move; the idle timer expired
\* two seconds later and restarted the driver, still at offset 50
RestartWrapsOnlyWitness ==
  /\ this.idleTimeout = 2
  /\ this.scrollSpeed = 1
  /\ this.startX # 0
  /\ this.startScrollPosition = Num(50)
  /\ this.scrollPosition = Num(50)
  /\ ~this.isDragging
  /\ browser.timers = {}
  /\ lastInteractionAt = browser.now - 2
  /\ this.isScrolling
  /\ this.lastFrameTime = browser.now

====
